---- MODULE Spec2Model ----
(***************************************************************************)
(* Model of the X-Ray mock of moto: the segment parser                     *)
(* (TraceSegment.from_dict), the per-trace store (SegmentCollection), the  *)
(* summary query (SegmentCollection.summary) and the two request handlers  *)
(* of XRayResponse that drive them (trace_segments, trace_summaries).      *)
(* SpecThreads runs put_segment statement by statement for two callers     *)
(* that share the store without a lock.                                    *)
(*                                                                         *)
(* Time is counted in ticks, TicksPerSecond ticks to the second, so that a *)
(* fractional epoch time such as 1.5 s is a whole number of ticks.  A JSON *)
(* value is an integer >= 0 when it is a number, None when it is absent or *)
(* null, and one of the negative markers below when it is of another type. *)
(***************************************************************************)
EXTENDS Integers, Sequences, FiniteSets, TLC

\* ---------------------------------------------------------------- bounds
MaxTick == 2            \* segment times range over 0 .. MaxTick ticks
TicksPerSecond == 2     \* resolution of the fractional seconds
MaxSegments == 3        \* segments held by the store in Spec
MaxQuerySegments == 2   \* segments held by the store in SpecQuery
MaxSec == 2             \* query bounds range over 0 .. MaxSec seconds
MaxBatch == 2           \* documents in one PutTraceSegments request
MaxIngestSegments == 2  \* segments held by the store in SpecIngest
MaxParseSegments == 2   \* segments held by the store in SpecParse
MaxFlagSegments == 2    \* segments held by the store in SpecFlags
MaxDurationSegments == 2 \* segments held by the store in SpecDuration
MaxDurationTick == 4    \* segment times in SpecDuration, in ticks
MaxDurationSec == 3     \* end of the window queried in SpecDuration
MaxSeedSegments == 1    \* segments stored before the threads of SpecThreads

\* ------------------------------------------------------- value encodings
None == -1              \* Python None: the key is absent or null
NotANumber == -2        \* a JSON value datetime.fromtimestamp / int() rejects
                        \* with ValueError or TypeError (text, list, ...)
NotConvertible == -3    \* a query parameter int() rejects with TypeError

Epoch == 0              \* datetime.datetime(1970, 1, 1), in ticks

TraceIds == {"1-0a-t1", "1-0a-t2"}
Ticks == 0 .. MaxTick

VARIABLES
    collection,     \* SegmentCollection._segments: trace id -> trace item
    lastPut,        \* history: trace and outcome of the last process_segment
    lastDoc,        \* history: the document of the last call, in SpecParse
    firstPut,       \* history: trace id -> first segment stored for it
    lastBatch,      \* history: the batch the response answers
    lastQuery,      \* history: the query the response answers
    response,       \* what the most recent handler call returned
    heap,           \* SpecThreads: object id -> trace item (a dict object)
    index,          \* SpecThreads: trace id -> object id, the defaultdict
    threads         \* SpecThreads: thread -> position and locals of its call

threadVars == <<heap, index, threads>>

vars ==
    <<collection, lastPut, lastDoc, firstPut, lastBatch, lastQuery, response,
      heap, index, threads>>

\* ------------------------------------------------------------ TraceSegment
IsNumber(v) == v >= 0

\* datetime.datetime.fromtimestamp(t): the date t ticks after the epoch
fromtimestamp(t) == Epoch + t

start_date(seg) == fromtimestamp(seg.start_time)
end_date(seg) == fromtimestamp(seg.end_time)

\* TraceSegment.__lt__; it raises when either start_time is no number
lt(self, other) == start_date(self) < start_date(other)
lt_raises(self, other) ==
    ~IsNumber(self.start_time) \/ ~IsNumber(other.start_time)

\* ------------------------------------------------------- SegmentCollection
new_trace_item ==
    [start_date |-> Epoch, end_date |-> Epoch, finished |-> FALSE,
     segments |-> <<>>]

\* defaultdict lookup: an unseen trace id yields a fresh item
getitem(coll, tid) ==
    IF tid \in DOMAIN coll THEN coll[tid] ELSE new_trace_item

setitem(coll, tid, item) ==
    [t \in (DOMAIN coll) \cup {tid} |-> IF t = tid THEN item ELSE coll[t]]

\* faulty variant of bisect_left: append instead of searching the position
bisect_append(a, x, lo, hi) == [raised |-> FALSE, lo |-> hi]

\* faulty variant of bisect_left: the position after the equal elements
RECURSIVE bisect_right(_, _, _, _)
bisect_right(a, x, lo, hi) ==
    IF lo < hi
    THEN LET mid == (lo + hi) \div 2 IN
         IF lt_raises(x, a[mid + 1])
         THEN [raised |-> TRUE, lo |-> lo]
         ELSE IF lt(x, a[mid + 1])
              THEN bisect_right(a, x, lo, mid)
              ELSE bisect_right(a, x, mid + 1, hi)
    ELSE [raised |-> FALSE, lo |-> lo]

\* bisect.bisect_left(a, x, lo, hi) over 0-based indices, a[mid + 1] being
\* Python's a[mid]; raised when a comparison raises
RECURSIVE bisect_left(_, _, _, _)
bisect_left(a, x, lo, hi) ==
    IF lo < hi
    THEN LET mid == (lo + hi) \div 2 IN
         IF lt_raises(a[mid + 1], x)
         THEN [raised |-> TRUE, lo |-> lo]
         ELSE IF lt(a[mid + 1], x)
              THEN bisect_left(a, x, mid + 1, hi)
              ELSE bisect_left(a, x, lo, mid)
    ELSE [raised |-> FALSE, lo |-> lo]

\* list.insert(i, x), i 0-based
insert(a, i, x) == SubSeq(a, 1, i) \o <<x>> \o SubSeq(a, i + 1, Len(a))

\* faulty variant of tail: inspect the first segment of the list
tail_first(segs) == segs[1]

\* segments[-1]
tail(segs) == segs[Len(segs)]

\* faulty variant of has_end_time: every segment counts as ended
has_end_time_always(seg) == TRUE

\* segment.end_time is not None
has_end_time(seg) == seg.end_time # None

\* faulty variant of window_start: the start date of the last segment
window_start_tail(segs) == start_date(segs[Len(segs)])

\* segments[0].start_date
window_start(segs) == start_date(segs[1])

\* segments[-1].end_date
window_end(segs) == end_date(tail(segs))

\* faulty variant of tail_open: the flag follows the tail
tail_open_unfinished(item) == [item EXCEPT !.finished = FALSE]

\* faulty variant of tail_open: the window start is computed all the same
tail_open_rewindowed(item) ==
    [item EXCEPT !.start_date = window_start(item.segments)]

\* the test of the tail has no else branch: when the tail has no end time,
\* the item keeps its flag and its window
tail_open(item) == item

\* SegmentCollection.put_segment: the store after the call, and whether the
\* call raised.  The item is created by the lookup, the segment is inserted
\* before the tail is inspected, and finished is set before the two dates
\* are computed, so a call that raises keeps what it did up to there.
put_segment(coll, segment) ==
    LET tid == segment.trace_id
        item == getitem(coll, tid)
        pos == bisect_left(item.segments, segment, 0, Len(item.segments))
    IN  IF pos.raised
        THEN [coll |-> setitem(coll, tid, item), raised |-> TRUE]
        ELSE
        LET segs == insert(item.segments, pos.lo, segment)
            item1 == [item EXCEPT !.segments = segs]
        IN  IF has_end_time(tail(segs))
            THEN LET item2 == [item1 EXCEPT !.finished = TRUE] IN
                 IF \/ ~IsNumber(segs[1].start_time)
                    \/ ~IsNumber(tail(segs).end_time)
                 THEN [coll |-> setitem(coll, tid, item2), raised |-> TRUE]
                 ELSE [coll |-> setitem(coll, tid,
                                   [item2 EXCEPT
                                      !.start_date = window_start(segs),
                                      !.end_date = window_end(segs)]),
                       raised |-> FALSE]
            ELSE [coll |-> setitem(coll, tid, tail_open(item1)),
                  raised |-> FALSE]

\* ---------------------------------------------------- TraceSegment.from_dict
\* A raw document is malformed text, the JSON value null (or a number), or a
\* JSON object with the set of keys it holds and the values of those keys.
NoneId == "None"        \* no segment id attached to an exception

NoException == [type |-> "None", seg_id |-> NoneId, code |-> "None"]

BadSegmentException(seg_id, code) ==
    [type |-> "BadSegmentException", seg_id |-> seg_id, code |-> code]

TypeError == [type |-> "TypeError", seg_id |-> NoneId, code |-> "None"]

\* the named parameters of TraceSegment.__init__
NamedParams ==
    {"name", "segment_id", "trace_id", "start_time", "end_time",
     "in_progress", "service", "user", "origin", "parent_id", "http", "aws",
     "metadata", "annotations", "subsegments"}

\* the value a document holds under a key that is no named parameter
value_of(data, k) == IF k = "id" THEN data.id ELSE data.ext[k]

\* cls(**data): a key the document lacks takes the constructor's default,
\* and the keys that are no named parameter (id among them) make up misc
TraceSegment(data) ==
    [id |-> data.id, trace_id |-> data.trace_id,
     start_time |-> data.start_time,
     end_time |-> IF "end_time" \in data.keys THEN data.end_time ELSE None,
     misc |-> [k \in data.keys \ NamedParams |-> value_of(data, k)]]

NoSegment ==
    [id |-> NoneId, trace_id |-> NoneId, start_time |-> None,
     end_time |-> None, misc |-> [k \in {} |-> NoneId]]

\* faulty variant of seg_id_of: the id is never attached
seg_id_missing(data) == NoneId

\* seg_id = data['id'], the id from_dict attaches to its later exceptions
seg_id_of(data) == data.id

\* faulty variant of is_text_false: boolean false counts as well
is_any_false(v) == v \in {"'false'", "False"}

\* data['in_progress'] == 'false': equal to the text, a boolean never is
is_text_false(v) == v = "'false'"

\* TraceSegment.from_dict: the exception it raises, or the segment
from_dict(data) ==
    IF data.json # "object"
    THEN [exc |-> TypeError, segment |-> NoSegment]
    ELSE IF "id" \notin data.keys
    THEN [exc |-> BadSegmentException(NoneId, "MissingParam"),
          segment |-> NoSegment]
    ELSE IF ~({"name", "trace_id", "start_time"} \subseteq data.keys)
    THEN [exc |-> BadSegmentException(seg_id_of(data), "MissingParam"),
          segment |-> NoSegment]
    ELSE IF "end_time" \notin data.keys /\ "in_progress" \notin data.keys
    THEN [exc |-> BadSegmentException(seg_id_of(data), "MissingParam"),
          segment |-> NoSegment]
    ELSE IF "end_time" \notin data.keys /\ is_text_false(data.in_progress)
    THEN [exc |-> BadSegmentException(seg_id_of(data), "MissingParam"),
          segment |-> NoSegment]
    ELSE [exc |-> NoException, segment |-> TraceSegment(data)]

\* ------------------------------------------------------------- XRayBackend
\* XRayBackend.process_segment: the store after the call, the exception the
\* call raises (NoException when it returns), and the segment it parsed
process_segment(coll, doc) ==
    IF doc.json = "malformed"
    THEN [coll |-> coll, segment |-> NoSegment,
          exc |-> BadSegmentException(NoneId, "JSONFormatError")]
    ELSE LET parsed == from_dict(doc) IN
         IF parsed.exc # NoException
         THEN [coll |-> coll, segment |-> NoSegment, exc |-> parsed.exc]
         ELSE LET put == put_segment(coll, parsed.segment) IN
              [coll |-> put.coll, segment |-> parsed.segment,
               exc |-> IF put.raised
                       THEN BadSegmentException(parsed.segment.id,
                                                "InternalFailure")
                       ELSE NoException]

\* ------------------------------------------------------------ XRayResponse
NoResponse ==
    [status |-> 0, type |-> "None", unprocessed |-> <<>>, ids |-> {},
     count |-> 0, parts |-> {}]

\* json.dumps({'__type': code, 'message': msg}), dict(status=status)
ErrorResponse(status, code) ==
    [status |-> status, type |-> code, unprocessed |-> <<>>, ids |-> {},
     count |-> 0, parts |-> {}]

\* the loop of trace_segments over the documents still to process: the
\* store it leaves, the exceptions it collected, whether a document raised
\* something other than BadSegmentException, and the documents it handled
RECURSIVE trace_segments_loop(_, _, _, _)
trace_segments_loop(coll, docs, bad, handled) ==
    IF docs = <<>>
    THEN [coll |-> coll, bad |-> bad, aborted |-> FALSE, handled |-> handled]
    ELSE LET r == process_segment(coll, Head(docs)) IN
         IF r.exc.type = "BadSegmentException"
         THEN trace_segments_loop(r.coll, Tail(docs), Append(bad, r.exc),
                                  handled + 1)
         ELSE IF r.exc.type # "None"
         THEN [coll |-> r.coll, bad |-> bad, aborted |-> TRUE,
               handled |-> handled + 1]
         ELSE trace_segments_loop(r.coll, Tail(docs), bad, handled + 1)

\* faulty variant of in_window: the bounds of the window are inclusive
in_window_inclusive(trace, start_time, end_time) ==
    /\ trace.finished
    /\ start_time <= trace.start_date
    /\ trace.end_date <= end_time

\* SegmentCollection.summary's test of one trace item against the window
in_window(trace, start_time, end_time) ==
    /\ trace.finished
    /\ start_time < trace.start_date
    /\ trace.end_date < end_time

\* the ids of the summaries SegmentCollection.summary builds
summaries(coll, start_time, end_time) ==
    {tid \in DOMAIN coll : in_window(coll[tid], start_time, end_time)}

\* faulty variant of total_seconds_int: rounded to the nearest second
total_seconds_rounded(delta) ==
    IF delta >= 0
    THEN (2 * delta + TicksPerSecond) \div (2 * TicksPerSecond)
    ELSE -((2 * (-delta) + TicksPerSecond) \div (2 * TicksPerSecond))

\* int(delta.total_seconds()) of a difference of delta ticks: int() drops
\* the fraction, towards zero for a negative difference as well
total_seconds_int(delta) ==
    IF delta >= 0
    THEN delta \div TicksPerSecond
    ELSE -((-delta) \div TicksPerSecond)

\* faulty variant of any_in_misc: the key must hold a true value
any_true_in_misc(key, segs) ==
    \E i \in 1 .. Len(segs) :
        key \in DOMAIN segs[i].misc /\ segs[i].misc[key] = "True"

\* any([key in seg.misc for seg in trace['segments']])
any_in_misc(key, segs) ==
    \E i \in 1 .. Len(segs) : key \in DOMAIN segs[i].misc

\* the summary_part of one trace, its constant entries left out
summary_part(tid, trace) ==
    [Id |-> tid,
     Duration |-> total_seconds_int(trace.end_date - trace.start_date),
     HasError |-> any_in_misc("error", trace.segments),
     HasFault |-> any_in_misc("fault", trace.segments),
     HasThrottle |-> any_in_misc("throttle", trace.segments)]

\* SegmentCollection.summary: the AWSError it raises for a filter expression,
\* else the summaries, their ids and TracesProcessedCount
summary(coll, start_time, end_time, filter_expression) ==
    IF filter_expression # "None"
    THEN [raised |-> TRUE, code |-> "InternalFailure", status |-> 500,
          ids |-> {}, count |-> 0, parts |-> {}]
    ELSE [raised |-> FALSE, code |-> "None", status |-> 200,
          ids |-> summaries(coll, start_time, end_time),
          count |-> Cardinality(summaries(coll, start_time, end_time)),
          parts |-> {summary_part(tid, coll[tid]) :
                        tid \in summaries(coll, start_time, end_time)}]

\* AWSError.response(): the error's own code and status
AWSError_response(err) == ErrorResponse(err.status, err.code)

\* datetime.datetime.fromtimestamp(int(v)) of a query bound given in seconds
fromtimestamp_int(v) == fromtimestamp(v * TicksPerSecond)

\* XRayResponse.trace_summaries
trace_summaries(coll, q) ==
    IF q.StartTime = None
    THEN ErrorResponse(400, "MissingParameter")
    ELSE IF q.EndTime = None
    THEN ErrorResponse(400, "MissingParameter")
    ELSE IF q.StartTime = NotANumber
    THEN ErrorResponse(400, "InvalidParameterValue")
    ELSE IF q.StartTime = NotConvertible
    THEN ErrorResponse(500, "InternalFailure")
    ELSE IF q.EndTime = NotANumber
    THEN ErrorResponse(400, "InvalidParameterValue")
    ELSE IF q.EndTime = NotConvertible
    THEN ErrorResponse(500, "InternalFailure")
    ELSE LET r == summary(coll, fromtimestamp_int(q.StartTime),
                          fromtimestamp_int(q.EndTime), q.FilterExpression)
         IN  IF r.raised
             THEN AWSError_response(r)
             ELSE [status |-> 200, type |-> "None", unprocessed |-> <<>>,
                   ids |-> r.ids, count |-> r.count, parts |-> r.parts]

\* XRayResponse.trace_segments over the documents docs
trace_segments(coll, docs) ==
    LET r == trace_segments_loop(coll, docs, <<>>, 0) IN
    [coll |-> r.coll, handled |-> r.handled,
     response |-> IF r.aborted
                  THEN ErrorResponse(500, "InternalFailure")
                  ELSE [status |-> 200, type |-> "None",
                        unprocessed |-> r.bad, ids |-> {}, count |-> 0,
                        parts |-> {}]]

\* ------------------------------------------------------------------ inputs
SegmentIds == {"s1"}

AllKeys == {"id", "name", "trace_id", "start_time", "end_time", "in_progress"}

\* a document holding every mandatory key; end_time is left out, and
\* in_progress: true put in, when the segment is still open
SegmentDoc(id, tid, start, end) ==
    [json |-> "object",
     keys |-> IF end = None THEN AllKeys \ {"end_time"}
                             ELSE AllKeys \ {"in_progress"},
     id |-> id, trace_id |-> tid, start_time |-> start, end_time |-> end,
     in_progress |-> IF end = None THEN "True" ELSE "None"]

OtherDoc(json, keys, id) ==
    [json |-> json, keys |-> keys, id |-> id, trace_id |-> NoneId,
     start_time |-> None, end_time |-> None, in_progress |-> "None"]

\* documents of well-formed segments: numeric start, numeric or no end
WellFormedDocs ==
    {SegmentDoc(id, tid, s, e) :
        id \in SegmentIds, tid \in TraceIds, s \in Ticks,
        e \in Ticks \cup {None}}

\* raw documents of a batch: unparsable text, the JSON value null, an object
\* without id, an object with nothing but id, well-formed segments, a segment
\* whose end_time is text and a segment whose start_time is text
IngestDocs ==
    {OtherDoc("malformed", {}, NoneId), OtherDoc("null", {}, NoneId),
     OtherDoc("object", {"name"}, NoneId)}
    \cup {OtherDoc("object", {"id"}, id) : id \in SegmentIds}
    \cup {SegmentDoc(id, tid, 1, None) : id \in SegmentIds, tid \in TraceIds}
    \cup {SegmentDoc(id, tid, 0, 1) : id \in SegmentIds, tid \in TraceIds}
    \cup {SegmentDoc(id, "1-0a-t1", 0, NotANumber) : id \in SegmentIds}
    \cup {SegmentDoc(id, "1-0a-t1", NotANumber, None) : id \in SegmentIds}

Batches == UNION {[1 .. n -> IngestDocs] : n \in 0 .. MaxBatch}

RECURSIVE SumLen(_, _)
SumLen(coll, tids) ==
    IF tids = {} THEN 0
    ELSE LET t == CHOOSE x \in tids : TRUE
         IN  Len(coll[t].segments) + SumLen(coll, tids \ {t})

TotalSegments(coll) == SumLen(coll, DOMAIN coll)

NoPut == [trace_id |-> NoneId, exc |-> NoException]

NoDoc == OtherDoc("None", {}, NoneId)

\* the values of in_progress: the text 'false', the booleans, and none
InProgressValues == {"'false'", "False", "True"}

\* a JSON object holding the keys keys, each with one fixed value
ParseDoc(keys, in_progress) ==
    [json |-> "object", keys |-> keys,
     id |-> IF "id" \in keys THEN "s1" ELSE NoneId,
     trace_id |-> IF "trace_id" \in keys THEN "1-0a-t1" ELSE NoneId,
     start_time |-> IF "start_time" \in keys THEN 1 ELSE None,
     end_time |-> IF "end_time" \in keys THEN MaxTick ELSE None,
     in_progress |-> in_progress]

\* an object for every set of keys and every value of in_progress
ParseDocs ==
    {ParseDoc(k, "None") : k \in SUBSET (AllKeys \ {"in_progress"})}
    \cup {ParseDoc(k \cup {"in_progress"}, v) :
            k \in SUBSET (AllKeys \ {"in_progress"}),
            v \in InProgressValues}

NoQuery ==
    [asked |-> FALSE, StartTime |-> None, EndTime |-> None,
     FilterExpression |-> "None"]

Query(start, end, filter) ==
    [asked |-> TRUE, StartTime |-> start, EndTime |-> end,
     FilterExpression |-> filter]

Seconds == 0 .. MaxSec

\* the queries asked: every window without a filter expression, an empty and
\* a non-empty filter expression, and each kind of unusable time parameter
Queries ==
    {Query(a, b, "None") : a \in Seconds, b \in Seconds}
    \cup {Query(0, MaxSec, f) : f \in {"", "service(\"api\")"}}
    \cup {Query(a, 0, "None") : a \in {None, NotANumber, NotConvertible}}
    \cup {Query(0, b, "None") : b \in {None, NotANumber, NotConvertible}}

NoBatch == [docs |-> None, handled |-> 0, raised |-> 0]

\* the keys the derived flags look for, and the values a document gives them
ExtensionKeys == {"error", "fault", "throttle"}

ExtensionValues(k) == IF k = "error" THEN {"True", "False"} ELSE {"True"}

Extensions ==
    UNION {{e \in [ks -> {"True", "False"}] :
               \A k \in ks : e[k] \in ExtensionValues(k)} :
           ks \in SUBSET ExtensionKeys}

\* a segment document that also holds the extension keys of ext
FlagDoc(id, tid, start, end, ext) ==
    [json |-> "object",
     keys |-> (IF end = None THEN AllKeys \ {"end_time"}
                              ELSE AllKeys \ {"in_progress"})
              \cup DOMAIN ext,
     id |-> id, trace_id |-> tid, start_time |-> start, end_time |-> end,
     in_progress |-> IF end = None THEN "True" ELSE "None", ext |-> ext]

\* open and ended segments of both traces with every choice of extensions
FlagDocs ==
    {FlagDoc(id, tid, 1, e, ext) :
        id \in SegmentIds, tid \in TraceIds, e \in {1, None},
        ext \in Extensions}

\* the window that holds every segment of FlagDocs
FlagQuery == Query(0, MaxSec, "None")

DurationTicks == 0 .. MaxDurationTick

\* segments of both traces that start after the epoch and end at any tick
DurationDocs ==
    {SegmentDoc(id, tid, s, e) :
        id \in SegmentIds, tid \in TraceIds, s \in DurationTicks \ {0},
        e \in DurationTicks \cup {None}}

\* the window that holds every finished trace of DurationDocs
DurationQuery == Query(0, MaxDurationSec, "None")

EmptyMap == [t \in {} |-> new_trace_item]

\* the two callers of put_segment, and the trace both of them put on
Threads == {1, 2}

ThreadTrace == "1-0a-t1"

\* the dict object created for the item stored before the threads start
SeedObject == 0

\* open and ended segments of one trace at every start tick
ThreadDocs ==
    {SegmentDoc(id, ThreadTrace, s, e) :
        id \in SegmentIds, s \in Ticks, e \in {None, MaxTick}}

\* the window that holds the finished traces of ThreadDocs
ThreadQuery == Query(0, MaxSec, "None")

\* a caller that has not called put_segment yet
IdleThread ==
    [pc |-> "idle", segment |-> NoSegment, ref |-> None, lo |-> None,
     hi |-> None, elem |-> NoSegment, start_time |-> None,
     end_time |-> None, raised |-> FALSE, base |-> EmptyMap,
     overlapped |-> FALSE]

\* ----------------------------------------------------------------- actions
Init ==
    /\ collection = EmptyMap
    /\ lastPut = NoPut
    /\ lastDoc = NoDoc
    /\ firstPut = EmptyMap
    /\ lastBatch = NoBatch
    /\ lastQuery = NoQuery
    /\ response = NoResponse
    /\ heap = [o \in {} |-> new_trace_item]
    /\ index = [t \in {} |-> SeedObject]
    /\ threads = [th \in Threads |-> IdleThread]

\* firstPut after a call on trace tid that parsed segment seg
FirstPutAfter(coll, seg) ==
    LET tid == seg.trace_id IN
    IF /\ tid \notin DOMAIN firstPut
       /\ tid \in DOMAIN coll
       /\ coll[tid].segments # <<>>
    THEN [t \in (DOMAIN firstPut) \cup {tid} |->
             IF t = tid THEN seg ELSE firstPut[t]]
    ELSE firstPut

\* one call of XRayBackend.process_segment(doc)
ProcessSegment(doc, cap) ==
    /\ TotalSegments(collection) < cap
    /\ LET r == process_segment(collection, doc) IN
       /\ collection' = r.coll
       /\ lastPut' = [trace_id |-> r.segment.trace_id, exc |-> r.exc]
       /\ firstPut' = FirstPutAfter(r.coll, r.segment)
    /\ response' = NoResponse
    /\ lastQuery' = NoQuery
    /\ lastBatch' = NoBatch

Put ==
    /\ \E doc \in WellFormedDocs : ProcessSegment(doc, MaxSegments)
    /\ lastDoc' = NoDoc
    /\ UNCHANGED threadVars

Next == Put

\* the store alone, fed one well-formed segment document at a time
Spec == Init /\ [][Next]_vars

\* one GetTraceSummaries request, XRayResponse.trace_summaries
TraceSummaries(q) ==
    /\ response' = trace_summaries(collection, q)
    /\ lastQuery' = q
    /\ lastPut' = NoPut
    /\ lastBatch' = NoBatch
    /\ UNCHANGED <<collection, firstPut, lastDoc, threadVars>>

QueryPut ==
    /\ \E doc \in WellFormedDocs : ProcessSegment(doc, MaxQuerySegments)
    /\ lastDoc' = NoDoc
    /\ UNCHANGED threadVars

GetTraceSummaries == \E q \in Queries : TraceSummaries(q)

NextQuery == QueryPut \/ GetTraceSummaries

\* the store and the summary query over it
SpecQuery == Init /\ [][NextQuery]_vars

\* firstPut after the documents docs went through process_segment in order
RECURSIVE FirstPutsAfter(_, _, _)
FirstPutsAfter(coll, first, docs) ==
    IF docs = <<>> THEN first
    ELSE LET r == process_segment(coll, Head(docs))
             tid == r.segment.trace_id
             f == IF /\ tid \notin DOMAIN first
                     /\ tid \in DOMAIN r.coll
                     /\ r.coll[tid].segments # <<>>
                  THEN [t \in (DOMAIN first) \cup {tid} |->
                           IF t = tid THEN r.segment ELSE first[t]]
                  ELSE first
         IN  IF r.exc.type \in {"None", "BadSegmentException"}
             THEN FirstPutsAfter(r.coll, f, Tail(docs))
             ELSE f

\* one PutTraceSegments request, XRayResponse.trace_segments, with the
\* parameter TraceSegmentDocuments present
TraceSegments(docs) ==
    /\ TotalSegments(collection) + Len(docs) <= MaxIngestSegments
    /\ LET r == trace_segments(collection, docs) IN
       /\ collection' = r.coll
       /\ response' = r.response
       /\ lastBatch' = [docs |-> Len(docs), handled |-> r.handled,
                        raised |-> Len(r.response.unprocessed)
                                   + (IF r.response.status = 500 THEN 1 ELSE 0)]
    /\ firstPut' = FirstPutsAfter(collection, firstPut, docs)
    /\ lastPut' = NoPut
    /\ lastQuery' = NoQuery
    /\ UNCHANGED <<lastDoc, threadVars>>

\* the same request without the parameter TraceSegmentDocuments
TraceSegmentsMissing ==
    /\ response' = ErrorResponse(400, "MissingParameter")
    /\ lastBatch' = NoBatch
    /\ lastPut' = NoPut
    /\ lastQuery' = NoQuery
    /\ UNCHANGED <<collection, firstPut, lastDoc, threadVars>>

PutTraceSegments == \E docs \in Batches : TraceSegments(docs)

NextIngest == PutTraceSegments \/ TraceSegmentsMissing

\* batches of raw documents through the ingestion handler
SpecIngest == Init /\ [][NextIngest]_vars

\* one call of XRayBackend.process_segment on a JSON object, remembered
ParseSegment ==
    \E doc \in ParseDocs :
        /\ ProcessSegment(doc, MaxParseSegments)
        /\ lastDoc' = doc
        /\ UNCHANGED threadVars

NextParse == ParseSegment

\* the parser and the store, fed JSON objects with every set of keys
SpecParse == Init /\ [][NextParse]_vars

FlagPut ==
    /\ \E doc \in FlagDocs : ProcessSegment(doc, MaxFlagSegments)
    /\ lastDoc' = NoDoc
    /\ UNCHANGED threadVars

FlagSummaries == TraceSummaries(FlagQuery)

NextFlags == FlagPut \/ FlagSummaries

\* the store fed segments with extension keys, and the summary over it
SpecFlags == Init /\ [][NextFlags]_vars

DurationPut ==
    /\ \E doc \in DurationDocs : ProcessSegment(doc, MaxDurationSegments)
    /\ lastDoc' = NoDoc
    /\ UNCHANGED threadVars

DurationSummaries == TraceSummaries(DurationQuery)

NextDuration == DurationPut \/ DurationSummaries

\* the store fed segments over a longer range of ticks, and the summary
SpecDuration == Init /\ [][NextDuration]_vars

\* ---------------------------------------------- put_segment, step by step
\* Two callers run put_segment on one trace with no lock between them.  A
\* caller can be suspended wherever the interpreter runs Python code: inside
\* the item factory of the defaultdict, inside each TraceSegment.__lt__ that
\* insort_left calls, and between the statements of put_segment.
Running(th) == threads[th].pc \notin {"idle", "done"}

OtherThread(th) == CHOOSE o \in Threads : o # th

\* the store as the defaultdict shows it: each trace id with its item
View(idx, hp) == [t \in DOMAIN idx |-> hp[idx[t]]]

\* one step of caller th, leaving it as thread and the objects as hp, idx
ThreadStep(th, thread, hp, idx) ==
    /\ threads' = [threads EXCEPT ![th] = thread]
    /\ heap' = hp
    /\ index' = idx
    /\ collection' = View(idx, hp)
    /\ response' = NoResponse
    /\ lastQuery' = NoQuery
    /\ UNCHANGED <<lastPut, lastDoc, firstPut, lastBatch>>

\* a segment is stored before the callers start, by one process_segment
SeedPut ==
    /\ \A th \in Threads : threads[th].pc = "idle"
    /\ \E doc \in ThreadDocs : ProcessSegment(doc, MaxSeedSegments)
    /\ lastDoc' = NoDoc
    /\ index' = [t \in DOMAIN collection' |-> SeedObject]
    /\ heap' = [o \in {SeedObject} |-> collection'[ThreadTrace]]
    /\ UNCHANGED threads

\* caller th enters put_segment(segment); base is the store the call, or the
\* call it overlaps with, started from
StartPut(th, doc) ==
    /\ threads[th].pc = "idle"
    /\ LET o == OtherThread(th) IN
       threads' =
          [threads EXCEPT
             ![th] = [@ EXCEPT !.pc = "lookup",
                               !.segment = from_dict(doc).segment,
                               !.base = IF Running(o) THEN threads[o].base
                                                      ELSE collection,
                               !.overlapped = Running(o)],
             ![o] = [@ EXCEPT !.overlapped = @ \/ Running(o)]]
    /\ response' = NoResponse
    /\ lastQuery' = NoQuery
    /\ UNCHANGED <<collection, heap, index, lastPut, lastDoc, firstPut,
                   lastBatch>>

\* self._segments[trace_id]: the item of a known trace, or for an unseen one
\* the call of the factory _new_trace_item, which makes a new dict object
Lookup(th) ==
    /\ threads[th].pc = "lookup"
    /\ LET tid == threads[th].segment.trace_id IN
       IF tid \in DOMAIN index
       THEN ThreadStep(th, [threads[th] EXCEPT !.pc = "insort",
                                               !.ref = index[tid]],
                       heap, index)
       ELSE ThreadStep(th, [threads[th] EXCEPT !.pc = "store", !.ref = th],
                       setitem(heap, th, new_trace_item), index)

\* defaultdict.__missing__ after the factory returned: the new item is
\* stored under the trace id, whatever is there by now
Store(th) ==
    /\ threads[th].pc = "store"
    /\ ThreadStep(th, [threads[th] EXCEPT !.pc = "insort"], heap,
                  setitem(index, threads[th].segment.trace_id,
                          threads[th].ref))

\* the state of caller th once insort_left knows lo and hi: it reads the
\* middle element and calls __lt__, or inserts when the search is over
SearchOrInsert(th, lo, hi) ==
    LET segs == heap[threads[th].ref].segments IN
    IF lo < hi
    THEN ThreadStep(th, [threads[th] EXCEPT
                            !.pc = "compare", !.lo = lo, !.hi = hi,
                            !.elem = segs[((lo + hi) \div 2) + 1]],
                    heap, index)
    ELSE ThreadStep(th, [threads[th] EXCEPT !.pc = "tail", !.lo = lo,
                                            !.hi = hi],
                    [heap EXCEPT ![threads[th].ref].segments =
                        insert(segs, lo, threads[th].segment)],
                    index)

\* bisect.insort_left(segments, segment) is entered: hi = len(segments)
Insort(th) ==
    /\ threads[th].pc = "insort"
    /\ SearchOrInsert(th, 0, Len(heap[threads[th].ref].segments))

\* a call of __lt__ returns and the search goes on with the list as it is now
Compare(th) ==
    /\ threads[th].pc = "compare"
    /\ LET t == threads[th]
           mid == (t.lo + t.hi) \div 2
       IN  IF lt(t.elem, t.segment)
           THEN SearchOrInsert(th, mid + 1, t.hi)
           ELSE SearchOrInsert(th, t.lo, mid)

\* the item the defaultdict holds for the trace of caller th
ItemOf(th) == heap[index[threads[th].segment.trace_id]]

Returned(th, raised) ==
    [threads[th] EXCEPT !.pc = "done", !.raised = raised]

\* if self._segments[trace_id]['segments'][-1].end_time is not None
InspectTail(th) ==
    /\ threads[th].pc = "tail"
    /\ IF ItemOf(th).segments = <<>>
       THEN ThreadStep(th, Returned(th, TRUE), heap, index)
       ELSE IF has_end_time(tail(ItemOf(th).segments))
       THEN ThreadStep(th, [threads[th] EXCEPT !.pc = "finish"], heap, index)
       ELSE ThreadStep(th, Returned(th, FALSE), heap, index)

\* self._segments[trace_id]['finished'] = True
SetFinished(th) ==
    /\ threads[th].pc = "finish"
    /\ ThreadStep(th, [threads[th] EXCEPT !.pc = "dates"],
                  [heap EXCEPT
                     ![index[threads[th].segment.trace_id]].finished = TRUE],
                  index)

\* start_time = segments[0].start_date; end_time = segments[-1].end_date
ReadDates(th) ==
    /\ threads[th].pc = "dates"
    /\ LET segs == ItemOf(th).segments IN
       IF segs = <<>>
       THEN ThreadStep(th, Returned(th, TRUE), heap, index)
       ELSE IF ~IsNumber(tail(segs).end_time)
       THEN ThreadStep(th, Returned(th, TRUE), heap, index)
       ELSE ThreadStep(th, [threads[th] EXCEPT
                               !.pc = "write_start",
                               !.start_time = window_start(segs),
                               !.end_time = window_end(segs)],
                       heap, index)

\* self._segments[trace_id]['start_date'] = start_time
WriteStart(th) ==
    /\ threads[th].pc = "write_start"
    /\ ThreadStep(th, [threads[th] EXCEPT !.pc = "write_end"],
                  [heap EXCEPT
                     ![index[threads[th].segment.trace_id]].start_date =
                        threads[th].start_time],
                  index)

\* self._segments[trace_id]['end_date'] = end_time, and the call returns
WriteEnd(th) ==
    /\ threads[th].pc = "write_end"
    /\ ThreadStep(th, Returned(th, FALSE),
                  [heap EXCEPT
                     ![index[threads[th].segment.trace_id]].end_date =
                        threads[th].end_time],
                  index)

\* a summary query answered between two steps of the callers
ThreadSummaries == TraceSummaries(ThreadQuery)

NextThreads ==
    \/ SeedPut
    \/ \E th \in Threads, doc \in ThreadDocs : StartPut(th, doc)
    \/ \E th \in Threads : Lookup(th)
    \/ \E th \in Threads : Store(th)
    \/ \E th \in Threads : Insort(th)
    \/ \E th \in Threads : Compare(th)
    \/ \E th \in Threads : InspectTail(th)
    \/ \E th \in Threads : SetFinished(th)
    \/ \E th \in Threads : ReadDates(th)
    \/ \E th \in Threads : WriteStart(th)
    \/ \E th \in Threads : WriteEnd(th)
    \/ ThreadSummaries

\* two unsynchronised callers of put_segment and a summary query
SpecThreads == Init /\ [][NextThreads]_vars

\* ------------------------------------------------- properties of the store
SegmentsOf(t) == collection[t].segments

StartsOf(segs) == {segs[i].start_time : i \in 1 .. Len(segs)}

MaxStart(segs) == CHOOSE m \in StartsOf(segs) : \A v \in StartsOf(segs) : v <= m

MinStartDate(segs) ==
    CHOOSE m \in {start_date(segs[i]) : i \in 1 .. Len(segs)} :
        \A i \in 1 .. Len(segs) : m <= start_date(segs[i])

EndDatesOf(segs) ==
    {end_date(segs[i]) : i \in {j \in 1 .. Len(segs) : segs[j].end_time # None}}

MaxEndDate(segs) == CHOOSE m \in EndDatesOf(segs) : \A v \in EndDatesOf(segs) : v <= m

DistinctStarts(segs) ==
    \A i, j \in 1 .. Len(segs) : i # j => segs[i].start_time # segs[j].start_time

\* every segment with the greatest start time is open, every earlier one ended
OpenLast(segs) ==
    /\ segs # <<>>
    /\ \A i \in 1 .. Len(segs) :
          (segs[i].end_time = None) <=> (segs[i].start_time = MaxStart(segs))

\* no segment other than the one with the greatest start time has ended
OnlyLastEnded(segs) ==
    /\ segs # <<>>
    /\ DistinctStarts(segs)
    /\ \A i \in 1 .. Len(segs) :
          segs[i].end_time # None => segs[i].start_time = MaxStart(segs)

\* the last process_segment call stored a segment in trace t and returned
PutReturnedOn(t) == lastPut.trace_id = t /\ lastPut.exc = NoException

\* C1: after every put of a well-formed segment, in any order and with
\* duplicates, each trace's segments are non-decreasing by start date.
SortedInvariant ==
    \A t \in DOMAIN collection :
        \A i, j \in 1 .. Len(SegmentsOf(t)) :
            i < j => start_date(SegmentsOf(t)[i]) <= start_date(SegmentsOf(t)[j])

\* three segments, two of them with the same start, the first one put now last
SortedWitness ==
    \E t \in DOMAIN collection :
        /\ Len(SegmentsOf(t)) = 3
        /\ firstPut[t] = SegmentsOf(t)[3]
        /\ SegmentsOf(t)[1].start_time = SegmentsOf(t)[2].start_time
        /\ SegmentsOf(t)[2].start_time < SegmentsOf(t)[3].start_time

\* C2 as claimed: whenever the greatest-start segment is open and all earlier
\* ones have ended, the trace is not finished, whatever the insertion order.
NonCompletionAnyOrder ==
    \A t \in DOMAIN collection : OpenLast(SegmentsOf(t)) => ~collection[t].finished

\* C2 as amended: the same, when the first segment put on the trace is an
\* open segment with the greatest start time.
NonCompletionOpenFirst ==
    \A t \in DOMAIN collection :
        /\ OpenLast(SegmentsOf(t))
        /\ firstPut[t].start_time = MaxStart(SegmentsOf(t))
        => ~collection[t].finished

\* the open greatest segment was put first, two ended earlier ones after it
NonCompletionWitness ==
    \E t \in DOMAIN collection :
        /\ Len(SegmentsOf(t)) = 3
        /\ OpenLast(SegmentsOf(t))
        /\ firstPut[t] = SegmentsOf(t)[3]
        /\ SegmentsOf(t)[1].end_time # None
        /\ SegmentsOf(t)[2].end_time # None
        /\ lastPut.trace_id = t
        /\ ~collection[t].finished

\* C3: with distinct start times of which only the greatest segment has an
\* end time, the trace is finished exactly from the put of that segment on,
\* in every insertion order.
CompletionHeuristic ==
    \A t \in DOMAIN collection :
        OnlyLastEnded(SegmentsOf(t)) =>
            (collection[t].finished <=>
                \E i \in 1 .. Len(SegmentsOf(t)) : SegmentsOf(t)[i].end_time # None)

\* the ended greatest segment was put first and two open ones after it
CompletionWitness ==
    \E t \in DOMAIN collection :
        /\ Len(SegmentsOf(t)) = 3
        /\ OnlyLastEnded(SegmentsOf(t))
        /\ SegmentsOf(t)[3].end_time # None
        /\ firstPut[t] = SegmentsOf(t)[3]
        /\ lastPut.trace_id = t
        /\ collection[t].finished

\* C4 as claimed: after a put that leaves a tail with an end time, the
\* window end is the greatest end date of the trace's ended segments.
WindowEndIsMax ==
    \A t \in DOMAIN collection :
        PutReturnedOn(t) /\ has_end_time(tail(SegmentsOf(t))) =>
            collection[t].end_date = MaxEndDate(SegmentsOf(t))

\* C5: after a put that leaves a tail with an end time, the window start is
\* the least start date of the trace's segments, in every insertion order.
WindowStartIsMin ==
    \A t \in DOMAIN collection :
        PutReturnedOn(t) /\ has_end_time(tail(SegmentsOf(t))) =>
            collection[t].start_date = MinStartDate(SegmentsOf(t))

\* the tail was put first; the least start came later and moved the window
WindowStartWitness ==
    \E t \in DOMAIN collection :
        /\ Len(SegmentsOf(t)) >= 2
        /\ PutReturnedOn(t)
        /\ has_end_time(tail(SegmentsOf(t)))
        /\ firstPut[t] = tail(SegmentsOf(t))
        /\ SegmentsOf(t)[1].start_time < firstPut[t].start_time
        /\ collection[t].start_date = start_date(SegmentsOf(t)[1])

\* ------------------------------------------------- properties of the query
\* the last request was a query whose two time parameters are integers
QueryWithTimes ==
    /\ lastQuery.asked
    /\ IsNumber(lastQuery.StartTime)
    /\ IsNumber(lastQuery.EndTime)

\* C6: without a filter expression the summary holds exactly the finished
\* traces whose window lies strictly inside the queried one, and
\* TracesProcessedCount is their number.
StrictWindowFiltering ==
    QueryWithTimes /\ lastQuery.FilterExpression = "None" =>
        /\ response.status = 200
        /\ \A t \in TraceIds :
              t \in response.ids <=>
                 /\ t \in DOMAIN collection
                 /\ collection[t].finished
                 /\ lastQuery.StartTime * TicksPerSecond < collection[t].start_date
                 /\ collection[t].end_date < lastQuery.EndTime * TicksPerSecond
        /\ response.count = Cardinality(response.ids)

\* one trace is included; another finished one, whose window starts exactly
\* at the queried start and ends inside, is not
StrictWindowWitness ==
    /\ QueryWithTimes
    /\ response.status = 200
    /\ response.count = 1
    /\ \E t, u \in DOMAIN collection :
          /\ response.ids = {t}
          /\ u # t
          /\ collection[u].finished
          /\ collection[u].start_date = lastQuery.StartTime * TicksPerSecond
          /\ collection[u].end_date < lastQuery.EndTime * TicksPerSecond

\* C9 as claimed: a query fails as unsupported exactly when its filter
\* expression is non-empty; an absent or empty one is answered.
FilterFailsIffNonEmpty ==
    QueryWithTimes =>
        ((response.status = 500 /\ response.type = "InternalFailure")
            <=> lastQuery.FilterExpression \notin {"None", ""})

\* the kind of failure a query runs into, by the parameters it carries
ErrorKind(q) ==
    IF q.StartTime = None \/ q.EndTime = None THEN "missing parameter"
    ELSE IF q.StartTime = NotANumber THEN "non-integer time"
    ELSE IF q.StartTime = NotConvertible THEN "internal failure"
    ELSE IF q.EndTime = NotANumber THEN "non-integer time"
    ELSE IF q.EndTime = NotConvertible THEN "internal failure"
    ELSE IF q.FilterExpression \notin {"None", ""} THEN "unsupported filter"
    ELSE "none"

\* C10 as claimed: the code of an error response belongs to one kind of
\* failure only: no query failing in another way is answered with it.
DistinctErrorCodes ==
    lastQuery.asked /\ ErrorKind(lastQuery) # "none" =>
        \A q \in Queries :
            ErrorKind(q) \notin {"none", ErrorKind(lastQuery)} =>
                trace_summaries(collection, q).type # response.type

\* ------------------------------------------- properties of the ingestion
\* C7 as claimed: a batch is answered with success, every document of it
\* was processed, and each document that failed has one rejection record.
BatchNeverAborts ==
    lastBatch.docs # None =>
        /\ response.status = 200
        /\ lastBatch.handled = lastBatch.docs
        /\ Len(response.unprocessed) = lastBatch.raised

\* C8 as claimed: a batch whose every document was rejected leaves the
\* store as it was.
RejectedLeavesStoreUnchanged ==
    [][(/\ lastBatch'.docs # None
        /\ response'.status = 200
        /\ Len(response'.unprocessed) = lastBatch'.docs)
       => collection' = collection]_vars

\* --------------------------------------------------- properties of the parser
MandatoryKeys == {"name", "trace_id", "start_time"}

\* C11: an object without id is rejected with MissingParam and no segment
\* id, whatever else it lacks; one with id that lacks name, trace_id or
\* start_time, or has those and neither end_time nor in_progress, is rejected
\* with MissingParam carrying its id; none of them changes the store.
MissingFieldRejection ==
    [][LET d == lastDoc' IN
       d.json = "object" =>
          /\ "id" \notin d.keys =>
                /\ lastPut'.exc = BadSegmentException(NoneId, "MissingParam")
                /\ collection' = collection
          /\ ("id" \in d.keys /\ ~(MandatoryKeys \subseteq d.keys)) =>
                /\ lastPut'.exc = BadSegmentException(d.id, "MissingParam")
                /\ collection' = collection
          /\ (/\ "id" \in d.keys
              /\ MandatoryKeys \subseteq d.keys
              /\ "end_time" \notin d.keys
              /\ "in_progress" \notin d.keys) =>
                /\ lastPut'.exc = BadSegmentException(d.id, "MissingParam")
                /\ collection' = collection]_vars

\* an object with id, end_time and in_progress but no name was rejected with
\* its id while the store held a segment
MissingFieldWitness ==
    /\ lastDoc.json = "object"
    /\ lastDoc.keys = AllKeys \ {"name"}
    /\ lastPut.exc = BadSegmentException(lastDoc.id, "MissingParam")
    /\ lastPut.exc.seg_id # NoneId
    /\ TotalSegments(collection) = 1

\* the document of the last call has every mandatory key and in_progress but
\* no end_time
OpenDoc(d) ==
    /\ d.json = "object"
    /\ "id" \in d.keys
    /\ MandatoryKeys \subseteq d.keys
    /\ "end_time" \notin d.keys
    /\ "in_progress" \in d.keys

\* C20: a document with every mandatory key, no end_time and in_progress
\* equal to the text 'false' is rejected with MissingParam carrying its id
\* and leaves the store as it was; with a boolean in_progress it is stored
\* as a segment without end time, and the trace's finished flag stays as it
\* was.
AsymmetricEndTimeCheck ==
    [][LET d == lastDoc' IN
       OpenDoc(d) =>
          IF d.in_progress = "'false'"
          THEN /\ lastPut'.exc = BadSegmentException(d.id, "MissingParam")
               /\ collection' = collection
          ELSE /\ lastPut'.exc = NoException
               /\ d.trace_id \in DOMAIN collection'
               /\ Len(collection'[d.trace_id].segments)
                     = Len(getitem(collection, d.trace_id).segments) + 1
               /\ \E i \in 1 .. Len(collection'[d.trace_id].segments) :
                     /\ collection'[d.trace_id].segments[i].id = d.id
                     /\ collection'[d.trace_id].segments[i].end_time = None
               /\ collection'[d.trace_id].finished
                     = getitem(collection, d.trace_id).finished]_vars

\* a document with in_progress: false (the boolean) was stored as the second
\* open segment of a trace that is not finished
AsymmetricWitness ==
    /\ OpenDoc(lastDoc)
    /\ lastDoc.in_progress = "False"
    /\ lastPut.exc = NoException
    /\ Len(SegmentsOf(lastDoc.trace_id)) = 2
    /\ \A i \in 1 .. 2 : SegmentsOf(lastDoc.trace_id)[i].end_time = None
    /\ ~collection[lastDoc.trace_id].finished

\* ------------------------------------------------- properties of a summary
\* the summary returned for the last query, with one part per included trace
SummaryReturned ==
    /\ lastQuery.asked
    /\ response.status = 200
    /\ \A t \in response.ids : \E p \in response.parts : p.Id = t
    /\ \A p, q \in response.parts : p.Id = q.Id => p = q

\* some segment now in trace t was sent with the key k
SomeSegmentHolds(t, k) ==
    \E i \in 1 .. Len(SegmentsOf(t)) : k \in DOMAIN SegmentsOf(t)[i].misc

\* C15: for every trace included in a summary, HasError, HasFault and
\* HasThrottle are true exactly when some segment now in the trace was sent
\* with the key error, fault and throttle, whatever the key's value and
\* whatever the other two keys.
DerivedFlags ==
    lastQuery.asked =>
        /\ SummaryReturned
        /\ \A p \in response.parts :
              /\ p.Id \in response.ids
              /\ p.HasError <=> SomeSegmentHolds(p.Id, "error")
              /\ p.HasFault <=> SomeSegmentHolds(p.Id, "fault")
              /\ p.HasThrottle <=> SomeSegmentHolds(p.Id, "throttle")

\* a trace is reported with an error and a throttle but no fault; the only
\* error key is on an open segment and holds false, the throttle key is on
\* another segment
DerivedFlagsWitness ==
    /\ SummaryReturned
    /\ \E p \in response.parts :
          /\ p.HasError /\ ~p.HasFault /\ p.HasThrottle
          /\ Len(SegmentsOf(p.Id)) = 2
          /\ \E i, j \in 1 .. 2 :
                /\ i # j
                /\ DOMAIN SegmentsOf(p.Id)[i].misc = {"id", "error"}
                /\ SegmentsOf(p.Id)[i].misc["error"] = "False"
                /\ SegmentsOf(p.Id)[i].end_time = None
                /\ DOMAIN SegmentsOf(p.Id)[j].misc = {"id", "throttle"}

\* the window of trace t, in ticks
WindowTicks(t) == collection[t].end_date - collection[t].start_date

\* C16: for every trace included in a summary, Duration is the whole number
\* of seconds in the difference between window end and window start, the
\* fraction dropped: a difference of 1.5 s gives 1.
DurationTruncated ==
    lastQuery.asked =>
        /\ SummaryReturned
        /\ \A p \in response.parts :
              IF WindowTicks(p.Id) >= 0
              THEN /\ p.Duration >= 0
                   /\ p.Duration * TicksPerSecond <= WindowTicks(p.Id)
                   /\ WindowTicks(p.Id) < (p.Duration + 1) * TicksPerSecond
              ELSE /\ p.Duration <= 0
                   /\ (p.Duration - 1) * TicksPerSecond < WindowTicks(p.Id)
                   /\ WindowTicks(p.Id) <= p.Duration * TicksPerSecond

\* a trace is reported with a duration of at least one second whose window
\* is longer than that by a fraction of a second
DurationWitness ==
    /\ SummaryReturned
    /\ \E p \in response.parts :
          /\ p.Duration >= 1
          /\ WindowTicks(p.Id) > p.Duration * TicksPerSecond
          /\ 2 * (WindowTicks(p.Id) - p.Duration * TicksPerSecond)
                >= TicksPerSecond

\* ------------------------------------------- properties of one put_segment
\* C17: a trace that is finished stays finished through every later put on
\* any trace and every summary query, also a put that leaves an open tail.
FinishedMonotonic ==
    [][\A t \in DOMAIN collection :
          collection[t].finished =>
             t \in DOMAIN collection' /\ collection'[t].finished]_vars

\* a finished trace whose tail is open: the open segment was put after the
\* one that finished the trace, and a query was answered since
FinishedMonotonicWitness ==
    /\ lastQuery.asked
    /\ response.status = 200
    /\ \E t \in DOMAIN collection :
          /\ collection[t].finished
          /\ Len(SegmentsOf(t)) = 2
          /\ ~has_end_time(tail(SegmentsOf(t)))
          /\ firstPut[t] = SegmentsOf(t)[1]

\* C18: a put on one trace leaves every other trace's item as it was; a put
\* that leaves a tail with no end time adds one segment and keeps finished
\* and both window dates; a put that leaves a tail with an end time sets
\* finished and computes both dates, so a finished trace's window is always
\* that of the last put that left such a tail.
WindowFreezing ==
    [][\A t \in DOMAIN collection' :
          LET old == getitem(collection, t)
              new == collection'[t]
          IN  /\ lastPut'.trace_id # t =>
                    t \in DOMAIN collection /\ new = collection[t]
              /\ lastPut'.trace_id = t =>
                    /\ Len(new.segments) = Len(old.segments) + 1
                    /\ IF has_end_time(tail(new.segments))
                       THEN /\ new.finished
                            /\ new.start_date = start_date(new.segments[1])
                            /\ new.end_date = end_date(tail(new.segments))
                       ELSE /\ new.finished = old.finished
                            /\ new.start_date = old.start_date
                            /\ new.end_date = old.end_date]_vars

\* an open segment was put last on a finished trace: the window start is no
\* longer the least start date of the trace
WindowFreezingWitness ==
    \E t \in DOMAIN collection :
        /\ PutReturnedOn(t)
        /\ collection[t].finished
        /\ ~has_end_time(tail(SegmentsOf(t)))
        /\ collection[t].start_date # MinStartDate(SegmentsOf(t))
        /\ collection[t].end_date # Epoch

\* the list a without its k-th element
Without(a, k) == SubSeq(a, 1, k - 1) \o SubSeq(a, k + 1, Len(a))

\* C19: the segment a put inserts stands after every segment with an earlier
\* start date and before every segment with the same or a later one, the
\* others keeping their order; when it ties with the greatest start date the
\* tail of the trace stays the segment it was.
LeftBiasedTies ==
    [][\A t \in DOMAIN collection' :
          lastPut'.trace_id = t =>
             LET old == getitem(collection, t).segments
                 new == collection'[t].segments
             IN  \E k \in 1 .. Len(new) :
                    /\ old = Without(new, k)
                    /\ \A i \in 1 .. k - 1 :
                          start_date(new[i]) < start_date(new[k])
                    /\ \A i \in k + 1 .. Len(new) :
                          start_date(new[k]) <= start_date(new[i])
                    /\ (old # <<>> /\ new[k].start_time = MaxStart(old)) =>
                          tail(new) = tail(old)]_vars

\* three segments with one start date and three end times: the one put
\* first is the tail, and the one put last left the trace as it is
LeftBiasedWitness ==
    \E t \in DOMAIN collection :
        /\ PutReturnedOn(t)
        /\ Len(SegmentsOf(t)) = 3
        /\ \A i \in 1 .. 3 :
              SegmentsOf(t)[i].start_time = SegmentsOf(t)[1].start_time
        /\ \A i, j \in 1 .. 3 :
              i # j => SegmentsOf(t)[i].end_time # SegmentsOf(t)[j].end_time
        /\ firstPut[t] = SegmentsOf(t)[3]
        /\ ~has_end_time(firstPut[t])
        /\ ~collection[t].finished

\* --------------------------------------- properties of concurrent callers
\* both callers have returned from calls that overlapped in time
BothReturnedOverlapped ==
    \A th \in Threads : threads[th].pc = "done" /\ threads[th].overlapped

\* the item of trace t after put_segment(first) and then put_segment(second)
\* on the store base, one after the other
Serial(base, first, second, t) ==
    put_segment(put_segment(base, first).coll, second).coll[t]

\* C12 as claimed, for a trace whose item exists before the two calls: when
\* both have returned, the item is the one that one of the two serial orders
\* produces, so its segments are sorted by start date.
PutAtomicPerTrace ==
    (BothReturnedOverlapped /\ ThreadTrace \in DOMAIN threads[1].base) =>
        LET a == threads[1].segment
            b == threads[2].segment
            base == threads[1].base
            item == collection[ThreadTrace]
        IN  /\ item \in {Serial(base, a, b, ThreadTrace),
                         Serial(base, b, a, ThreadTrace)}
            /\ \A i, j \in 1 .. Len(item.segments) :
                  i < j => start_date(item.segments[i])
                              <= start_date(item.segments[j])

\* C13 as claimed: two overlapping calls for a trace the store has not seen
\* create one item between them, and after both have returned the item of
\* the trace holds the segments of both.
AtomicItemCreation ==
    (BothReturnedOverlapped /\ ThreadTrace \notin DOMAIN threads[1].base) =>
        /\ Cardinality(DOMAIN heap) = 1
        /\ ThreadTrace \in DOMAIN collection
        /\ Len(collection[ThreadTrace].segments) = 2
        /\ \A th \in Threads :
              \E i \in 1 .. 2 :
                 collection[ThreadTrace].segments[i] = threads[th].segment

\* finished flag and window of an item
Triple(item) == <<item.finished, item.start_date, item.end_date>>

\* C14 as claimed: while one call of put_segment is under way and no other
\* call overlaps it, a summary query finds the item of the trace with the
\* flag and window it had before the call or the ones it has after it.
SnapshotPerTrace ==
    \A th \in Threads :
        (lastQuery.asked /\ Running(th) /\ ~threads[th].overlapped) =>
            \A t \in DOMAIN collection :
                Triple(collection[t]) \in
                    {Triple(getitem(threads[th].base, t)),
                     Triple(put_segment(threads[th].base,
                                        threads[th].segment).coll[t])}

====
